---- MODULE Spec2Model ----
(***************************************************************************)
(* Model of src/app.py, the multi-language code formatter.                 *)
(*                                                                         *)
(* A text (Python str) is a sequence of one-character strings, so that     *)
(* strip, split, splitlines, startswith, replace and join are computed     *)
(* character by character as Python computes them.                         *)
(***************************************************************************)
EXTENDS Integers, Sequences, FiniteSets, TLC

\* ------------------------------------------------------------------------
\* Bounds of the model
\* ------------------------------------------------------------------------

\* Longest text, in lines, of the combinatorial input corpora.
MaxLines == 3

\* ------------------------------------------------------------------------
\* Python str primitives
\* ------------------------------------------------------------------------

\* Characters for which str.isspace() holds (those the corpora can contain).
Whitespace == {" ", "\t", "\n", "\r", "\f"}

\* Line boundaries of str.splitlines().
LineBreaks == {"\n", "\r", "\f"}

\* str.lower() on one character.
LowerChar(c) ==
  CASE c = "A" -> "a" [] c = "B" -> "b" [] c = "C" -> "c" [] c = "D" -> "d"
    [] c = "E" -> "e" [] c = "F" -> "f" [] c = "G" -> "g" [] c = "H" -> "h"
    [] c = "I" -> "i" [] c = "J" -> "j" [] c = "K" -> "k" [] c = "L" -> "l"
    [] c = "M" -> "m" [] c = "N" -> "n" [] c = "O" -> "o" [] c = "P" -> "p"
    [] c = "Q" -> "q" [] c = "R" -> "r" [] c = "S" -> "s" [] c = "T" -> "t"
    [] c = "U" -> "u" [] c = "V" -> "v" [] c = "W" -> "w" [] c = "X" -> "x"
    [] c = "Y" -> "y" [] c = "Z" -> "z" [] OTHER -> c

\* str.lower()
Lower(s) == [k \in 1..Len(s) |-> LowerChar(s[k])]

\* str.lstrip()
RECURSIVE LStrip(_)
LStrip(s) ==
  IF s = <<>> THEN s
  ELSE IF Head(s) \in Whitespace THEN LStrip(Tail(s)) ELSE s

\* str.rstrip()
RECURSIVE RStrip(_)
RStrip(s) ==
  IF s = <<>> THEN s
  ELSE IF s[Len(s)] \in Whitespace THEN RStrip(SubSeq(s, 1, Len(s) - 1)) ELSE s

\* str.strip()
Strip(s) == RStrip(LStrip(s))

\* str.startswith(p)
StartsWith(s, p) == Len(s) >= Len(p) /\ SubSeq(s, 1, Len(p)) = p

\* str.endswith(p)
EndsWith(s, p) == Len(s) >= Len(p) /\ SubSeq(s, Len(s) - Len(p) + 1, Len(s)) = p

\* any(s.startswith(kw) for kw in kws)
StartsWithAny(s, kws) == \E kw \in kws : StartsWith(s, kw)

\* old in s
Contains(s, old) ==
  \E k \in 1..(Len(s) - Len(old) + 1) : SubSeq(s, k, k + Len(old) - 1) = old

\* s.replace(old, new): every non-overlapping occurrence, left to right.
RECURSIVE Replace(_, _, _)
Replace(s, old, new) ==
  IF Len(s) < Len(old) THEN s
  ELSE IF StartsWith(s, old)
       THEN new \o Replace(SubSeq(s, Len(old) + 1, Len(s)), old, new)
       ELSE <<Head(s)>> \o Replace(Tail(s), old, new)

\* " " * n
Spaces(n) == [k \in 1..n |-> " "]

\* Index of the first character of s that is in set cs (0 when there is none).
FirstIn(s, cs) ==
  IF \E k \in 1..Len(s) : s[k] \in cs
  THEN CHOOSE k \in 1..Len(s) : s[k] \in cs /\ \A m \in 1..(k - 1) : s[m] \notin cs
  ELSE 0

\* s.split("\n"): always at least one piece, empty pieces kept.
RECURSIVE SplitNL(_)
SplitNL(s) ==
  LET k == FirstIn(s, {"\n"})
  IN  IF k = 0 THEN <<s>>
      ELSE <<SubSeq(s, 1, k - 1)>> \o SplitNL(SubSeq(s, k + 1, Len(s)))

\* s.splitlines(keepends): "\r\n" is one boundary, no piece after a final
\* boundary, no piece at all for the empty string.
RECURSIVE SplitLines(_, _)
SplitLines(s, keepends) ==
  IF s = <<>> THEN <<>>
  ELSE LET k == FirstIn(s, LineBreaks)
           e == IF k > 0 /\ k < Len(s) /\ s[k] = "\r" /\ s[k + 1] = "\n"
                THEN k + 1 ELSE k
       IN  IF k = 0 THEN <<s>>
           ELSE <<SubSeq(s, 1, IF keepends THEN e ELSE k - 1)>>
                \o SplitLines(SubSeq(s, e + 1, Len(s)), keepends)

\* sep.join(lines)
RECURSIVE Join(_, _)
Join(lines, sep) ==
  IF lines = <<>> THEN <<>>
  ELSE IF Len(lines) = 1 THEN lines[1]
       ELSE lines[1] \o sep \o Join(Tail(lines), sep)

NL == <<"\n">>

\* ------------------------------------------------------------------------
\* preprocess_code_python
\* ------------------------------------------------------------------------

\* The replacements dict, in its insertion order.
replacements ==
  << << <<"E","l","s","e",":">>, <<"e","l","s","e",":">> >>,
     << <<"E","l","i","f"," ">>, <<"e","l","i","f"," ">> >>,
     << <<"I","f"," ">>,         <<"i","f"," ">> >>,
     << <<"W","h","i","l","e"," ">>, <<"w","h","i","l","e"," ">> >>,
     << <<"F","o","r"," ">>,     <<"f","o","r"," ">> >> >>

\* The inner for loop over replacements.items(), from pair n on.
RECURSIVE ReplaceAll(_, _)
ReplaceAll(line, n) ==
  IF n > Len(replacements) THEN line
  ELSE LET old == replacements[n][1]
           new == replacements[n][2]
       IN  ReplaceAll(IF Contains(line, old) THEN Replace(line, old, new) ELSE line,
                      n + 1)

preprocess_code_python(raw_code) ==
  LET lines == SplitLines(raw_code, TRUE)
      new_lines == [k \in 1..Len(lines) |-> ReplaceAll(lines[k], 1)]
  IN  Join(new_lines, <<>>)

\* ------------------------------------------------------------------------
\* fix_block_indentation_python
\* ------------------------------------------------------------------------

block_keywords ==
  { <<"i", "f", " ">>,
    <<"e", "l", "i", "f", " ">>,
    <<"e", "l", "s", "e", ":">>,
    <<"f", "o", "r", " ">>,
    <<"w", "h", "i", "l", "e", " ">>,
    <<"d", "e", "f", " ">>,
    <<"c", "l", "a", "s", "s", " ">>,
    <<"w", "i", "t", "h", " ">>,
    <<"t", "r", "y", ":">>,
    <<"e", "x", "c", "e", "p", "t", " ">> }

\* Default of the indent_size parameter, also passed by format_python_code.
IndentSize == 4

\* processed_lines as first built: [line, leading_spaces] for every line.
LineRecords(lines) ==
  [k \in 1..Len(lines) |->
     [line |-> lines[k], indent |-> Len(lines[k]) - Len(LStrip(lines[k]))]]

\* A slip: the keyword test is left out, any ':' line opens a block.
IsBlockOpener_AnyColon(line) == EndsWith(Strip(line), <<":">>)

\* The two tests that make line i a block opener.
IsBlockOpener(line) ==
  LET line_stripped == Strip(line)
  IN  /\ EndsWith(line_stripped, <<":">>)
      /\ StartsWithAny(Lower(line_stripped), block_keywords)

\* The inner while loop's search: the first j' >= j whose stripped line is
\* not empty, 0 when the loop runs off the end of the list.
RECURSIVE NextNonBlank(_, _)
NextNonBlank(processed_lines, j) ==
  IF j > Len(processed_lines) THEN 0
  ELSE IF Strip(processed_lines[j].line) = <<>>
       THEN NextNonBlank(processed_lines, j + 1)
       ELSE j

\* A slip of line 120: the rewritten text is stored with the line's old indent.
FixNextLine_StaleIndent(processed_lines, i, indent_size) ==
  IF IsBlockOpener(processed_lines[i].line)
  THEN LET j == NextNonBlank(processed_lines, i + 1)
           indent_level == processed_lines[i].indent
           needed_indent == indent_level + indent_size
       IN  IF j # 0 /\ processed_lines[j].indent <= indent_level
           THEN [processed_lines EXCEPT
                   ![j] = [line |-> Spaces(needed_indent)
                                    \o Strip(processed_lines[j].line),
                           indent |-> processed_lines[j].indent]]
           ELSE processed_lines
  ELSE processed_lines

\* One iteration of the outer while loop, for line i: processed_lines is
\* updated in place, so a later iteration reads what this one wrote.
FixNextLine(processed_lines, i, indent_size) ==
  IF IsBlockOpener(processed_lines[i].line)
  THEN LET j == NextNonBlank(processed_lines, i + 1)
           indent_level == processed_lines[i].indent
           needed_indent == indent_level + indent_size
       IN  IF j # 0 /\ processed_lines[j].indent <= indent_level
           THEN [processed_lines EXCEPT
                   ![j] = [line |-> Spaces(needed_indent)
                                    \o Strip(processed_lines[j].line),
                           indent |-> needed_indent]]
           ELSE processed_lines
  ELSE processed_lines

\* The outer while loop, from index i to the end.
RECURSIVE FixLoop(_, _, _)
FixLoop(processed_lines, i, indent_size) ==
  IF i > Len(processed_lines) THEN processed_lines
  ELSE FixLoop(FixNextLine(processed_lines, i, indent_size), i + 1, indent_size)

fix_block_indentation_python(raw_code, indent_size) ==
  LET lines == SplitLines(raw_code, FALSE)
      processed_lines == FixLoop(LineRecords(lines), 1, indent_size)
  IN  Join([k \in 1..Len(processed_lines) |-> processed_lines[k].line], NL)

\* ------------------------------------------------------------------------
\* format_python_code
\* ------------------------------------------------------------------------

\* for _ in range(block_fix_passes): code_step2 = fix_block_indentation_python(..)
RECURSIVE BlockFixPasses(_, _)
BlockFixPasses(code, n) ==
  IF n = 0 THEN code
  ELSE BlockFixPasses(fix_block_indentation_python(code, IndentSize), n - 1)

\* What one autopep8.fix_code call can do.  The engine is a third-party
\* library: a call either raises or returns a text, and the text it returns
\* is either its input or a tidied form of it (trailing whitespace removed
\* from every line, exactly one newline at the end).
EngineTidy(text) ==
  LET lines == SplitLines(RStrip(text), FALSE)
  IN  Join([k \in 1..Len(lines) |-> RStrip(lines[k])], NL) \o NL

fix_code(text, behaviour) ==
  IF behaviour = "tidy" THEN EngineTidy(text) ELSE text

\* The behaviours of the two calls of one run: the second call is not made
\* when the first raises.
EngineRuns ==
  {[first |-> "raise", second |-> "none"]}
  \cup [first : {"same", "tidy"}, second : {"raise", "same", "tidy"}]

Raises(engine) == engine.first = "raise" \/ engine.second = "raise"

python_step1(raw_code) == preprocess_code_python(raw_code)

python_step2(raw_code, block_fix_passes) ==
  BlockFixPasses(python_step1(raw_code), block_fix_passes)

\* A slip of the except branch: the first call's output is kept when only
\* the second call raises.
format_python_code_KeepPass1(raw_code, block_fix_passes, engine) ==
  LET code_step2 == python_step2(raw_code, block_fix_passes)
  IN  IF engine.first = "raise" THEN code_step2
      ELSE IF engine.second = "raise" THEN fix_code(code_step2, engine.first)
      ELSE fix_code(fix_code(code_step2, engine.first), engine.second)

format_python_code(raw_code, block_fix_passes, engine) ==
  LET code_step2 == python_step2(raw_code, block_fix_passes)
  IN  IF Raises(engine) THEN code_step2
      ELSE LET pass1 == fix_code(code_step2, engine.first)
               pass2 == fix_code(pass1, engine.second)
           IN  pass2

\* ------------------------------------------------------------------------
\* minimal_cleanup_for_non_python
\* ------------------------------------------------------------------------

\* A slip: last_line_blank is never reset by a non-blank line.
RECURSIVE CleanLoop_NoReset(_, _, _)
CleanLoop_NoReset(lines, k, last_line_blank) ==
  IF k > Len(lines) THEN <<>>
  ELSE IF Strip(lines[k]) = <<>>
       THEN IF last_line_blank
            THEN CleanLoop_NoReset(lines, k + 1, TRUE)
            ELSE <<lines[k]>> \o CleanLoop_NoReset(lines, k + 1, TRUE)
       ELSE <<lines[k]>> \o CleanLoop_NoReset(lines, k + 1, last_line_blank)

\* The for loop over the right-stripped lines, from index k on, carrying
\* last_line_blank; returns cleaned_lines.
RECURSIVE CleanLoop(_, _, _)
CleanLoop(lines, k, last_line_blank) ==
  IF k > Len(lines) THEN <<>>
  ELSE IF Strip(lines[k]) = <<>>
       THEN IF last_line_blank
            THEN CleanLoop(lines, k + 1, TRUE)
            ELSE <<lines[k]>> \o CleanLoop(lines, k + 1, TRUE)
       ELSE <<lines[k]>> \o CleanLoop(lines, k + 1, FALSE)

\* A slip: blank lines are recognised before the trailing whitespace is
\* removed (line == ""), which is removed only from the lines kept.
RECURSIVE CleanLoop_RawBlank(_, _, _)
CleanLoop_RawBlank(lines, k, last_line_blank) ==
  IF k > Len(lines) THEN <<>>
  ELSE IF lines[k] = <<>>
       THEN IF last_line_blank
            THEN CleanLoop_RawBlank(lines, k + 1, TRUE)
            ELSE <<lines[k]>> \o CleanLoop_RawBlank(lines, k + 1, TRUE)
       ELSE <<RStrip(lines[k])>> \o CleanLoop_RawBlank(lines, k + 1, FALSE)

minimal_cleanup_RawBlank(raw_code) ==
  Join(CleanLoop_RawBlank(SplitNL(raw_code), 1, FALSE), NL)

minimal_cleanup_for_non_python(raw_code) ==
  LET split == SplitNL(raw_code)
      lines == [k \in 1..Len(split) |-> RStrip(split[k])]
  IN  Join(CleanLoop(lines, 1, FALSE), NL)

\* ------------------------------------------------------------------------
\* format_sas_code / format_vba_code
\* ------------------------------------------------------------------------

sas_block_start == { <<"p", "r", "o", "c", " ">>,
    <<"d", "a", "t", "a", " ">> }
sas_block_end == { <<"r", "u", "n", ";">>,
    <<"q", "u", "i", "t", ";">> }

vba_block_start ==
  { <<"s", "u", "b", " ">>,
    <<"f", "u", "n", "c", "t", "i", "o", "n", " ">>,
    <<"i", "f", " ">>,
    <<"f", "o", "r", " ">>,
    <<"w", "h", "i", "l", "e", " ">>,
    <<"s", "e", "l", "e", "c", "t", " ", "c", "a", "s", "e">>,
    <<"w", "i", "t", "h">> }
vba_block_end ==
  { <<"e", "n", "d", " ", "s", "u", "b">>,
    <<"e", "n", "d", " ", "f", "u", "n", "c", "t", "i", "o", "n">>,
    <<"e", "n", "d", " ", "i", "f">>,
    <<"n", "e", "x", "t">>,
    <<"w", "e", "n", "d">>,
    <<"e", "n", "d", " ", "s", "e", "l", "e", "c", "t">>,
    <<"e", "n", "d", " ", "w", "i", "t", "h">> }

Max(a, b) == IF a >= b THEN a ELSE b

\* "    " * indent_level
Indent(indent_level) == Spaces(4 * indent_level)

\* A slip: a block-end line is emitted before the counter is decremented.
SasStep_PrintFirst(line, indent_level) ==
  LET stripped == Strip(line)
      lower_stripped == Lower(stripped)
  IN  IF StartsWithAny(lower_stripped, sas_block_end)
      THEN [out |-> Indent(indent_level) \o stripped,
            indent_level |-> Max(indent_level - 1, 0)]
      ELSE [out |-> Indent(indent_level) \o stripped,
            indent_level |-> IF StartsWithAny(lower_stripped, sas_block_start)
                             THEN indent_level + 1 ELSE indent_level]

\* One iteration of format_sas_code's loop: the line emitted and the
\* counter after it.
SasStep(line, indent_level) ==
  LET stripped == Strip(line)
      lower_stripped == Lower(stripped)
  IN  IF StartsWithAny(lower_stripped, sas_block_end)
      THEN LET d == Max(indent_level - 1, 0)
           IN  [out |-> Indent(d) \o stripped, indent_level |-> d]
      ELSE [out |-> Indent(indent_level) \o stripped,
            indent_level |-> IF StartsWithAny(lower_stripped, sas_block_start)
                             THEN indent_level + 1 ELSE indent_level]

RECURSIVE SasLoop(_, _, _)
SasLoop(lines, k, indent_level) ==
  IF k > Len(lines) THEN <<>>
  ELSE LET r == SasStep(lines[k], indent_level)
       IN  <<r.out>> \o SasLoop(lines, k + 1, r.indent_level)

\* A slip: the line is emitted with its own leading whitespace kept.
format_sas_code_KeepLeading(raw_code) ==
  LET lines == SplitNL(minimal_cleanup_for_non_python(raw_code))
      emitted == SasLoop(lines, 1, 0)
  IN  Join([k \in 1..Len(lines) |->
              SubSeq(emitted[k], 1, Len(emitted[k]) - Len(Strip(lines[k])))
              \o lines[k]], NL)

format_sas_code(raw_code) ==
  LET cleaned == minimal_cleanup_for_non_python(raw_code)
      lines == SplitNL(cleaned)
  IN  Join(SasLoop(lines, 1, 0), NL)

IsElse(lower_stripped) ==
  lower_stripped = <<"e","l","s","e">> \/ StartsWith(lower_stripped, <<"e","l","s","e"," ">>)

\* A slip: the Else branch forgets to increment the counter back.
VbaStep_ElseNoReindent(line, indent_level) ==
  LET stripped == Strip(line)
      lower_stripped == Lower(stripped)
  IN  IF StartsWithAny(lower_stripped, vba_block_end) \/ IsElse(lower_stripped)
      THEN LET d == Max(indent_level - 1, 0)
           IN  [out |-> Indent(d) \o stripped, indent_level |-> d]
      ELSE [out |-> Indent(indent_level) \o stripped,
            indent_level |-> IF StartsWithAny(lower_stripped, vba_block_start)
                             THEN indent_level + 1 ELSE indent_level]

\* One iteration of format_vba_code's loop.
VbaStep(line, indent_level) ==
  LET stripped == Strip(line)
      lower_stripped == Lower(stripped)
  IN  IF StartsWithAny(lower_stripped, vba_block_end)
      THEN LET d == Max(indent_level - 1, 0)
           IN  [out |-> Indent(d) \o stripped, indent_level |-> d]
      ELSE IF IsElse(lower_stripped)
      THEN LET d == Max(indent_level - 1, 0)
           IN  [out |-> Indent(d) \o stripped, indent_level |-> d + 1]
      ELSE [out |-> Indent(indent_level) \o stripped,
            indent_level |-> IF StartsWithAny(lower_stripped, vba_block_start)
                             THEN indent_level + 1 ELSE indent_level]

RECURSIVE VbaLoop(_, _, _)
VbaLoop(lines, k, indent_level) ==
  IF k > Len(lines) THEN <<>>
  ELSE LET r == VbaStep(lines[k], indent_level)
       IN  <<r.out>> \o VbaLoop(lines, k + 1, r.indent_level)

\* The value of indent_level when the loop reaches line k.
RECURSIVE VbaDepthBefore(_, _)
VbaDepthBefore(lines, k) ==
  IF k = 1 THEN 0
  ELSE VbaStep(lines[k - 1], VbaDepthBefore(lines, k - 1)).indent_level

format_vba_code(raw_code) ==
  LET cleaned == minimal_cleanup_for_non_python(raw_code)
      lines == SplitNL(cleaned)
  IN  Join(VbaLoop(lines, 1, 0), NL)

\* ------------------------------------------------------------------------
\* Input texts
\* ------------------------------------------------------------------------

\* Every text of 1..n lines drawn from the set lines, joined by "\n".
TextsOf(lines, n) ==
  UNION {{Join(ls, NL) : ls \in [1..k -> lines]} : k \in 1..n}

\* Python: openers at two indents, statements at two indents, a
\* whitespace-only line, a ':' line that starts with no keyword.
PyLines ==
  { <<"i", "f", " ", "x", ":">>,
    <<" ", " ", "i", "f", " ", "y", ":">>,
    <<"z", "=", "1">>,
    <<" ", " ", " ", " ", "z", "=", "1">>,
    <<" ">>,
    <<"k", ":">> }

\* The chain of three unindented lines.
Chain == <<"i", "f", " ", "x", ":", "\n", "i", "f", " ", "y", ":", "\n", "z", "=", "1">>

\* Mis-cased keywords, tabs, CRLF and form-feed boundaries, trailing
\* whitespace, openers at the end of the text, surrounding blank lines.
PyExtras ==
  { <<"i", "f", " ", "x", ":", "\n", "i", "f", " ", "y", ":", "\n", "z", "=", "1">>,
    <<"I", "f", " ", "x", ":", "\n", "E", "l", "s", "e", ":", "\n", "z", "=", "1">>,
    <<"E", "L", "S", "E", ":", "\n", "z", "=", "1">>,
    <<"i", "f", " ", "x", ":", "\n", "\t", "z", "=", "1", "\n", "f", "o", "r", " ", "y", ":", "\n", "\n", " ", "z", "=", "1", " ">>,
    <<"i", "f", " ", "x", ":", "\r", "\n", "i", "f", " ", "y", ":", "\r", "\n", "z", "=", "1", "\r", "\n">>,
    <<"t", "r", "y", ":", "\f", "z", "=", "1", "\r", "k", ":">>,
    <<"d", "e", "f", " ", "f", ":", "\n", "\n", "\n", "c", "l", "a", "s", "s", " ", "c", ":", "\n", "w", "i", "t", "h", " ", "w", ":", "\n", "z", "=", "1">>,
    <<"\n", "\n", " ", "i", "f", " ", "x", ":", "\n", "z", "=", "1", "\n", "\n">>,
    <<"w", "h", "i", "l", "e", " ", "x", ":", "\n", "e", "l", "i", "f", " ", "y", ":", "\n", "e", "x", "c", "e", "p", "t", " ", "e", ":", "\n", " ", " ", "z", "=", "1", "\n", "i", "f", " ", "x", ":">>,
    <<"i", "f", " ", "x", ":", "\n", "i", "f", " ", "y", ":", "\n", "i", "f", " ", "x", ":", "\n", "i", "f", " ", "y", ":", "\n", "z", "=", "1">>,
    <<"i", "f", " ", "x", ":", "\n", "k", ":", "\n", " ", "\n", "z", "=", "1">> }

PyCorpus == TextsOf(PyLines, MaxLines) \cup PyExtras

SasLines ==
  { <<"p", "r", "o", "c", " ", "s", "o", "r", "t", ";">>,
    <<"r", "u", "n", ";">>,
    <<"x", "=", "1", ";">>,
    <<" ">>,
    <<" ", " ", "D", "A", "T", "A", " ", "a", ";", " ">>,
    <<"Q", "u", "i", "t", ";">>,
    <<"\t", "p", "r", "o", "c", " ", "p", ";">> }

SasExtras ==
  { <<"p", "r", "o", "c", " ", "s", "o", "r", "t", ";", "\n", "r", "u", "n", ";">>,
    <<"d", "a", "t", "a", " ", "a", ";", "\r", "\n", "\r", "\n", "\r", "\n", "s", "e", "t", " ", "b", ";", "\r", "\n", "r", "u", "n", ";", "\r", "\n">>,
    <<"p", "r", "o", "c", " ", "s", "q", "l", ";", " ", "\n", "\n", " ", "\n", "\t", "\n", "s", "e", "l", "e", "c", "t", " ", "1", ";", "\t", "\n", "q", "u", "i", "t", ";", "\n", "r", "u", "n", ";", "\n", "r", "u", "n", ";", "\n", "x", ";">>,
    <<"\n", "\n", "p", "r", "o", "c", " ", "x", ";", "\n", " ", "\n">>,
    <<"d", "a", "t", "a", " ", "a", ";", "\n", "p", "r", "o", "c", " ", "b", ";", "\n", "d", "a", "t", "a", " ", "c", ";", "\n", "x", ";", "\n", "r", "u", "n", ";", "x", "\n", "q", "u", "i", "t", ";", "\n", "r", "u", "n", ";", "\n", "r", "u", "n", ";">> }

SasCorpus == TextsOf(SasLines, MaxLines) \cup SasExtras

VbaLines ==
  { <<"I", "f", " ", "x", " ", "T", "h", "e", "n">>,
    <<"E", "l", "s", "e">>,
    <<"E", "n", "d", " ", "I", "f">>,
    <<"y", " ", "=", " ", "1">>,
    <<" ">>,
    <<" ", " ", "e", "l", "s", "e", " ", "y", " ">>,
    <<"\t", "F", "o", "r", " ", "i">> }

VbaExtras ==
  { <<"I", "f", " ", "x", " ", "T", "h", "e", "n", "\n", "E", "l", "s", "e", "\n", "E", "n", "d", " ", "I", "f">>,
    <<"S", "u", "b", " ", "f", "\n", "F", "o", "r", " ", "i", "\n", "I", "f", " ", "x", " ", "T", "h", "e", "n", "\n", "y", "\n", "E", "l", "s", "e", "\n", "z", "\n", "E", "n", "d", " ", "I", "f", "\n", "N", "e", "x", "t", "\n", "E", "n", "d", " ", "S", "u", "b">>,
    <<"E", "l", "s", "e", "\n", "y", " ", "=", " ", "1", "\n", "E", "l", "s", "e", "\n", "y", " ", "=", " ", "1">>,
    <<"E", "l", "s", "e", "I", "f", " ", "x", " ", "T", "h", "e", "n", "\n", "y", "\n", "e", "l", "s", "e", "\n", "\n", "\n", "\n", "W", "e", "n", "d">>,
    <<"W", "i", "t", "h", " ", "w", "\n", "s", "e", "l", "e", "c", "t", " ", "c", "a", "s", "e", " ", "x", "\n", "n", "e", "x", "t", "I", "t", "e", "m", "\n", "E", "n", "d", " ", "S", "e", "l", "e", "c", "t", "\n", "E", "n", "d", " ", "W", "i", "t", "h", "\n", "w", "i", "t", "h", "d", "r", "a", "w">>,
    <<"F", "u", "n", "c", "t", "i", "o", "n", " ", "f", " ", "\r", "\n", " ", " ", "W", "h", "i", "l", "e", " ", "x", "\r", "\n", "\r", "\n", "\r", "\n", " ", " ", "W", "e", "n", "d", "\r", "\n", "E", "n", "d", " ", "F", "u", "n", "c", "t", "i", "o", "n", "\r", "\n">> }

VbaCorpus == TextsOf(VbaLines, MaxLines) \cup VbaExtras

\* What the text area, the uploader and the URL fetch deliver in the
\* exploration of the whole application.
AppCorpus ==
  { <<>>,
    <<" ", "\n", "\t">>,
    <<"i", "f", " ", "x", ":", "\n", "i", "f", " ", "y", ":", "\n", "z", "=", "1">>,
    <<" ", "I", "f", " ", "x", ":", "\n", "z", "=", "1", "\n">>,
    <<"p", "r", "o", "c", " ", "s", "o", "r", "t", ";", "\n", "x", ";", "\n", "r", "u", "n", ";">>,
    <<"I", "f", " ", "x", " ", "T", "h", "e", "n", "\n", "E", "l", "s", "e", "\n", "E", "n", "d", " ", "I", "f">> }

\* ------------------------------------------------------------------------
\* The application: st.session_state, the widgets, and the locals of the
\* last "Format & Refine Code" run
\* ------------------------------------------------------------------------

VARIABLES
  input_code,         \* st.session_state["input_code"]
  formatted_code,     \* st.session_state["formatted_code"]
  selected_language,  \* the selectbox
  block_fix_passes,   \* the slider (0 when the language is not Python)
  warning,            \* the st.warning shown by the current script run
  run                 \* the last Format run: its branch and its locals

vars == <<input_code, formatted_code, selected_language, block_fix_passes,
          warning, run>>

Languages == {"Python", "SAS", "VBA"}

\* The slider's max_value and value.
MaxPasses == 3
DefaultPasses == 1

NoWarning == "none"
NoCodeWarning == "No code to format. Please paste or upload code."

NoRun ==
  [kind |-> "none", passes |-> 0, raw_code |-> <<>>, code_step1 |-> <<>>, code_step2 |-> <<>>,
   engine |-> "none", pass2 |-> <<>>, cleaned |-> <<>>, stages |-> {}]

\* raw_code = st.session_state["input_code"].strip()
RawCode(code) == Strip(code)

Init ==
  /\ input_code = <<>>
  /\ formatted_code = <<>>
  /\ selected_language = "Python"
  /\ block_fix_passes = DefaultPasses
  /\ warning = NoWarning
  /\ run = NoRun

\* A script run in which the text area, the uploader or a fetch with status
\* 200 delivers the text t.
EditInput ==
  /\ \E t \in AppCorpus : input_code' = t
  /\ warning' = NoWarning
  /\ UNCHANGED <<formatted_code, selected_language, block_fix_passes, run>>

\* The "Clear Input" button.
ClearInput ==
  /\ input_code' = <<>>
  /\ warning' = NoWarning
  /\ UNCHANGED <<formatted_code, selected_language, block_fix_passes, run>>

\* The selectbox: the slider exists, with its default, only for Python.
SelectLanguage ==
  /\ \E l \in Languages \ {selected_language} :
       /\ selected_language' = l
       /\ block_fix_passes' = IF l = "Python" THEN DefaultPasses ELSE 0
  /\ warning' = NoWarning
  /\ UNCHANGED <<input_code, formatted_code, run>>

\* The slider.
SetPasses ==
  /\ selected_language = "Python"
  /\ \E n \in 0..MaxPasses : n # block_fix_passes /\ block_fix_passes' = n
  /\ warning' = NoWarning
  /\ UNCHANGED <<input_code, formatted_code, selected_language, run>>

\* The Format button, Python branch.
FormatPython ==
  /\ selected_language = "Python"
  /\ RawCode(input_code) # <<>>
  /\ \E engine \in EngineRuns :
       LET raw_code == RawCode(input_code)
           code_step2 == python_step2(raw_code, block_fix_passes)
       IN  /\ formatted_code' = format_python_code(raw_code, block_fix_passes, engine)
           /\ run' = [kind |-> "python",
                      passes |-> block_fix_passes,
                      raw_code |-> raw_code,
                      code_step1 |-> python_step1(raw_code),
                      code_step2 |-> code_step2,
                      engine |-> IF Raises(engine) THEN "raised" ELSE "returned",
                      pass2 |-> IF Raises(engine) THEN <<>>
                                ELSE fix_code(fix_code(code_step2, engine.first),
                                              engine.second),
                      cleaned |-> <<>>,
                      stages |-> {"normalizer", "adapter"}
                                 \cup (IF block_fix_passes > 0 THEN {"repairer"} ELSE {})]
  /\ warning' = NoWarning
  /\ UNCHANGED <<input_code, selected_language, block_fix_passes>>

\* The Format button, SAS branch.
FormatSAS ==
  /\ selected_language = "SAS"
  /\ RawCode(input_code) # <<>>
  /\ LET raw_code == RawCode(input_code)
     IN  /\ formatted_code' = format_sas_code(raw_code)
         /\ run' = [NoRun EXCEPT !.kind = "sas", !.raw_code = raw_code,
                      !.cleaned = minimal_cleanup_for_non_python(raw_code),
                      !.stages = {"cleanup", "sas_indenter"}]
  /\ warning' = NoWarning
  /\ UNCHANGED <<input_code, selected_language, block_fix_passes>>

\* The Format button, VBA branch.
FormatVBA ==
  /\ selected_language = "VBA"
  /\ RawCode(input_code) # <<>>
  /\ LET raw_code == RawCode(input_code)
     IN  /\ formatted_code' = format_vba_code(raw_code)
         /\ run' = [NoRun EXCEPT !.kind = "vba", !.raw_code = raw_code,
                      !.cleaned = minimal_cleanup_for_non_python(raw_code),
                      !.stages = {"cleanup", "vba_indenter"}]
  /\ warning' = NoWarning
  /\ UNCHANGED <<input_code, selected_language, block_fix_passes>>

\* The Format button with nothing left after strip(): only the warning.
FormatEmpty ==
  /\ RawCode(input_code) = <<>>
  /\ warning' = NoCodeWarning
  /\ run' = [NoRun EXCEPT !.kind = "empty"]
  /\ UNCHANGED <<input_code, formatted_code, selected_language, block_fix_passes>>

\* The "Clear Output" button.
ClearOutput ==
  /\ formatted_code' = <<>>
  /\ warning' = NoWarning
  /\ UNCHANGED <<input_code, selected_language, block_fix_passes, run>>

Next ==
  \/ EditInput
  \/ ClearInput
  \/ SelectLanguage
  \/ SetPasses
  \/ FormatPython
  \/ FormatSAS
  \/ FormatVBA
  \/ FormatEmpty
  \/ ClearOutput

Spec == Init /\ [][Next]_vars

\* ------------------------------------------------------------------------
\* The Python pipeline over the Python corpus
\* ------------------------------------------------------------------------

InitPython ==
  /\ input_code \in PyCorpus
  /\ formatted_code = <<>>
  /\ selected_language = "Python"
  /\ block_fix_passes \in 0..MaxPasses
  /\ warning = NoWarning
  /\ run = NoRun

NextPython == FormatPython

SpecPython == InitPython /\ [][NextPython]_vars

\* ------------------------------------------------------------------------
\* The SAS and VBA formatters over their corpora
\* ------------------------------------------------------------------------

InitIndenters ==
  /\ input_code \in SasCorpus \cup VbaCorpus
  /\ formatted_code = <<>>
  /\ selected_language \in {"SAS", "VBA"}
  /\ block_fix_passes = 0
  /\ warning = NoWarning
  /\ run = NoRun

NextIndenters ==
  \/ FormatSAS
  \/ FormatVBA

SpecIndenters == InitIndenters /\ [][NextIndenters]_vars

\* ------------------------------------------------------------------------
\* Properties
\* ------------------------------------------------------------------------

\* Leading whitespace of a line, in characters.
IndentOf(line) == Len(line) - Len(LStrip(line))

Blank(line) == Strip(line) = <<>>

\* A block-opening line as the repairer's contract words it: the stripped
\* text ends with ':' and its lowercase form starts with a block keyword.
OpensBlock(line) ==
  LET s == Strip(line)
  IN  /\ s # <<>>
      /\ s[Len(s)] = ":"
      /\ \E kw \in block_keywords :
           Len(s) >= Len(kw) /\ \A n \in 1..Len(kw) : LowerChar(s[n]) = kw[n]

\* The last non-blank line before line j (0 when there is none).
PrevNonBlank(lines, j) ==
  IF \E p \in 1..(j - 1) : ~Blank(lines[p])
  THEN CHOOSE p \in 1..(j - 1) :
         ~Blank(lines[p]) /\ \A q \in (p + 1)..(j - 1) : Blank(lines[q])
  ELSE 0

\* The lines before and after the block-repair stage of the last run.
StepLinesBefore == SplitLines(run.code_step1, FALSE)
StepLinesAfter == SplitLines(run.code_step2, FALSE)

ChainFullyIndented == <<"i", "f", " ", "x", ":", "\n", " ", " ", " ", " ", "i", "f", " ", "y", ":", "\n", " ", " ", " ", " ", " ", " ", " ", " ", "z", "=", "1">>

\* Every line is unindented and non-blank, and every line but the last
\* opens a block.
IsUnindentedChain(lines) ==
  /\ Len(lines) >= 2
  /\ \A k \in 1..Len(lines) : ~Blank(lines[k]) /\ IndentOf(lines[k]) = 0
  /\ \A k \in 1..(Len(lines) - 1) : OpensBlock(lines[k])

\* C1 as stated: on the chain 'if x:', 'if y:', 'z=1', exactly one pass
\* leaves 'z=1' at indent 4 and two passes bring it to indent 8.
C1_OnePassOneLevel ==
  (run.kind = "python" /\ run.raw_code = Chain) =>
     /\ run.passes = 1 => IndentOf(StepLinesAfter[3]) = 4
     /\ run.passes = 2 => IndentOf(StepLinesAfter[3]) = 8

\* C1 amended: a pass rewrites the list in place, so an opener that the pass
\* has just re-indented is read at its new indent: one pass indents a whole
\* chain of unindented lines, line k to 4*(k-1); on the chain 'if x:',
\* 'if y:', 'z=1' one pass (like two or three) puts 'z=1' at indent 8, and
\* only zero passes leave it at indent 0.
C1_OnePassWholeChain ==
  run.kind = "python" =>
     /\ run.raw_code = Chain =>
          run.code_step2 = (IF run.passes = 0 THEN Chain ELSE ChainFullyIndented)
     /\ (run.passes >= 1 /\ IsUnindentedChain(StepLinesBefore)) =>
          /\ Len(StepLinesAfter) = Len(StepLinesBefore)
          /\ \A k \in 1..Len(StepLinesAfter) :
               StepLinesAfter[k] = Spaces(4 * (k - 1)) \o StepLinesBefore[k]

\* C1 witness: the chain after exactly one pass, 'z=1' at indent 8.
C1_Witness ==
  /\ run.kind = "python"
  /\ run.raw_code = Chain
  /\ run.passes = 1
  /\ IndentOf(StepLinesAfter[3]) = 8

C3_EmptyInputEmptiesResult ==
  (run.kind = "empty" /\ warning = NoCodeWarning) =>
     /\ run.stages = {}
     /\ formatted_code = <<>>

\* What Generic Cleanup promises of its output y for the input x: no line
\* ends in whitespace, no two blank lines follow each other, and the lines
\* are those of x, right-stripped, without the blank lines that follow a
\* blank line.
CleanupPost(x, y) ==
  LET before == SplitNL(x)
      after == SplitNL(y)
      idx == [i \in 1..Len(before) |-> i]
      kept == SelectSeq(idx, LAMBDA i :
                ~(Blank(before[i]) /\ i > 1 /\ Blank(before[i - 1])))
  IN  /\ \A k \in 1..Len(after) :
           after[k] = <<>> \/ after[k][Len(after[k])] \notin Whitespace
      /\ \A k \in 1..(Len(after) - 1) : ~(Blank(after[k]) /\ Blank(after[k + 1]))
      /\ after = [m \in 1..Len(kept) |-> RStrip(before[kept[m]])]

\* C4: the output of Generic Cleanup has no trailing whitespace and no two
\* consecutive blank lines; a run of blank lines becomes one blank line and
\* the other lines keep order and content, for the text the formatter was
\* given and for the text as typed.
C4_CleanupOutput ==
  run.kind \in {"sas", "vba"} =>
     /\ CleanupPost(run.raw_code, run.cleaned)
     /\ CleanupPost(input_code, minimal_cleanup_for_non_python(input_code))

\* C4 witness: a cleaned text that lost blank lines and trailing whitespace.
C4_Witness ==
  /\ run.kind = "sas"
  /\ Len(SplitNL(run.cleaned)) + 2 <= Len(SplitNL(run.raw_code))
  /\ \E k \in 1..Len(SplitNL(run.raw_code)) :
       LET l == SplitNL(run.raw_code)[k] IN ~Blank(l) /\ RStrip(l) # l
  /\ CleanupPost(run.raw_code, run.cleaned)

\* C5: Generic Cleanup applied to its own output returns it unchanged.
C5_CleanupIdempotent ==
  run.kind \in {"sas", "vba"} =>
     /\ minimal_cleanup_for_non_python(run.cleaned) = run.cleaned
     /\ LET once == minimal_cleanup_for_non_python(input_code)
        IN  minimal_cleanup_for_non_python(once) = once

\* C5 witness: a cleaned text that differs from the input and is a fixpoint.
C5_Witness ==
  /\ run.kind = "vba"
  /\ run.cleaned # run.raw_code
  /\ minimal_cleanup_for_non_python(run.cleaned) = run.cleaned

\* The SAS depth when line k is reached, as the contract states it.
RECURSIVE SasDepthBefore(_, _)
SasDepthBefore(lines, k) ==
  IF k = 1 THEN 0
  ELSE LET d == SasDepthBefore(lines, k - 1)
           l == Lower(Strip(lines[k - 1]))
       IN  IF StartsWithAny(l, sas_block_end) THEN Max(d - 1, 0)
           ELSE IF StartsWithAny(l, sas_block_start) THEN d + 1
           ELSE d

ProcSortRun == <<"p", "r", "o", "c", " ", "s", "o", "r", "t", ";", "\n", "r", "u", "n", ";">>

\* C6: the SAS indenter emits a 'run;'/'quit;' line at the decremented depth
\* (floor 0), any other line at the current depth, incrementing after a
\* 'proc '/'data ' line; the depth is never negative; 'proc sort;' and
\* 'run;' both come out at indent 0.
C6_SasDepthFold ==
  run.kind = "sas" =>
     LET lines == SplitNL(run.cleaned)
         out == SplitNL(formatted_code)
     IN  /\ Len(out) = Len(lines)
         /\ \A k \in 1..Len(lines) :
              LET d == SasDepthBefore(lines, k)
                  l == Lower(Strip(lines[k]))
                  at == IF StartsWithAny(l, sas_block_end) THEN Max(d - 1, 0) ELSE d
              IN  d >= 0 /\ out[k] = Spaces(4 * at) \o Strip(lines[k])
         /\ run.raw_code = ProcSortRun => formatted_code = ProcSortRun

\* C6 witness: 'proc sort;' then 'run;', both emitted at indent 0.
C6_Witness ==
  /\ run.kind = "sas"
  /\ run.raw_code = ProcSortRun
  /\ formatted_code = ProcSortRun

\* The lines of the last VBA run that take the Else branch.
ElseLines(lines) ==
  {k \in 1..Len(lines) :
     LET l == Lower(Strip(lines[k]))
     IN  ~StartsWithAny(l, vba_block_end)
         /\ (l = <<"e", "l", "s", "e">> \/ StartsWith(l, <<"e", "l", "s", "e", " ">>))}

\* The counter after line k.
VbaDepthAfter(lines, k) == VbaStep(lines[k], VbaDepthBefore(lines, k)).indent_level

\* C7 as stated: at every depth an Else line is emitted one level shallower
\* than the depth before it, and the depth after it equals the depth before.
C7_ElseKeepsDepth ==
  run.kind = "vba" =>
     LET lines == SplitNL(run.cleaned)
         out == SplitNL(formatted_code)
     IN  \A k \in ElseLines(lines) :
           LET d == VbaDepthBefore(lines, k)
           IN  /\ out[k] = Spaces(4 * (d - 1)) \o Strip(lines[k])
               /\ IndentOf(out[k]) = 4 * (d - 1)
               /\ VbaDepthAfter(lines, k) = d

\* C7 amended: at a depth of 1 or more an Else line is emitted one level
\* shallower and the depth after it equals the depth before; at depth 0 the
\* decrement is floored at 0, the line is emitted at depth 0 and the depth
\* after it is 1, one more than before.
C7_ElseFlooredAtZero ==
  run.kind = "vba" =>
     LET lines == SplitNL(run.cleaned)
         out == SplitNL(formatted_code)
     IN  \A k \in ElseLines(lines) :
           LET d == VbaDepthBefore(lines, k)
           IN  IF d >= 1
               THEN /\ out[k] = Spaces(4 * (d - 1)) \o Strip(lines[k])
                    /\ VbaDepthAfter(lines, k) = d
               ELSE /\ out[k] = Strip(lines[k])
                    /\ VbaDepthAfter(lines, k) = 1

\* C7 witness: an Else reached at depth 0 and an Else reached at depth 1.
C7_Witness ==
  /\ run.kind = "vba"
  /\ LET lines == SplitNL(run.cleaned)
     IN  /\ \E k \in ElseLines(lines) : VbaDepthBefore(lines, k) = 0
         /\ \E k \in ElseLines(lines) : VbaDepthBefore(lines, k) >= 1
  /\ formatted_code # run.raw_code

\* C8: one pass keeps the number and order of lines and rewrites line j only
\* when j is the first non-blank line after a block opener p and j's indent
\* is at most p's indent when p is visited; j then becomes (p's indent + 4)
\* spaces and j's stripped text; every other line is unchanged.
C8_OnePassFrame ==
  (run.kind = "python" /\ run.passes = 1) =>
     LET before == StepLinesBefore
         after == StepLinesAfter
     IN  /\ Len(after) = Len(before)
         /\ \A j \in 1..Len(before) :
              LET p == PrevNonBlank(before, j)
                  hit == /\ ~Blank(before[j])
                         /\ p # 0
                         /\ OpensBlock(before[p])
                         /\ IndentOf(before[j]) <= IndentOf(after[p])
              IN  after[j] = IF hit
                             THEN Spaces(IndentOf(after[p]) + 4) \o Strip(before[j])
                             ELSE before[j]

\* C8 witness: the line after 'if x:' is re-indented, the line after the
\* keyword-less 'k:' and the blank line are not.
C8_Witness ==
  /\ run.kind = "python"
  /\ run.passes = 1
  /\ run.code_step1 = <<"i", "f", " ", "x", ":", "\n", "k", ":", "\n", " ", "\n", "z", "=", "1">>
  /\ run.code_step2 = <<"i", "f", " ", "x", ":", "\n", " ", " ", " ", " ", "k", ":", "\n", " ", "\n", "z", "=", "1">>

\* C9: after one pass the first non-blank line after every block opener is
\* deeper than the opener, so 2 or 3 passes give what 1 pass gives.
C9_OnePassIsFixpoint ==
  (run.kind = "python" /\ run.passes >= 1) =>
     LET after == StepLinesAfter
     IN  /\ \A j \in 1..Len(after) :
              LET p == PrevNonBlank(after, j)
              IN  (~Blank(after[j]) /\ p # 0 /\ OpensBlock(after[p]))
                    => IndentOf(after[j]) > IndentOf(after[p])
         /\ run.code_step2 = fix_block_indentation_python(run.code_step1, IndentSize)
         /\ fix_block_indentation_python(run.code_step2, IndentSize) = run.code_step2

\* C9 witness: three passes over the chain end where one pass ends.
C9_Witness ==
  /\ run.kind = "python"
  /\ run.passes = 3
  /\ run.raw_code = Chain
  /\ run.code_step2 = ChainFullyIndented

\* C10: format_sas_code and format_vba_code applied to their own output
\* return it unchanged, for the text the formatter was given and for the
\* text as typed.
C10_IndentersIdempotent ==
  /\ run.kind = "sas" => format_sas_code(formatted_code) = formatted_code
  /\ run.kind = "vba" => format_vba_code(formatted_code) = formatted_code
  /\ run.kind \in {"sas", "vba"} =>
       /\ LET once == format_sas_code(input_code) IN format_sas_code(once) = once
       /\ LET once == format_vba_code(input_code) IN format_vba_code(once) = once

\* C10 witness: a SAS text that the formatter re-indented and that a second
\* application leaves alone.
C10_Witness ==
  /\ run.kind = "sas"
  /\ formatted_code # run.raw_code
  /\ \E k \in 1..Len(SplitNL(formatted_code)) : IndentOf(SplitNL(formatted_code)[k]) >= 4
  /\ format_sas_code(formatted_code) = formatted_code

====
